---- MODULE Spec2Model ----
(***************************************************************************)
(* Furnace controller (ESP32 + MAX6675 + relay): the treatment cycle of    *)
(* SimpleFurnaceController (src/src/main.py) and the filter/actuator of    *)
(* TemperatureController (src/src/modules/temperature.py).                 *)
(*                                                                         *)
(* Temperatures are fixed-point integers in units of 1/240 degC: a raw     *)
(* reading is a multiple of 0.25 degC (60 units) and the mean of up to     *)
(* TEMP_FILTER_SIZE = 5 raw readings is then an exact integer.             *)
(* Times are whole seconds, as MicroPython's time.time() returns them.     *)
(***************************************************************************)
EXTENDS Integers, Sequences, FiniteSets, TLC

\* ---------------------------------------------------------------- config.py
TEMP_MIN == 20
TEMP_MAX == 300
TEMP_AMBIENTE == 25
DURACAO_MIN == 30
DURACAO_MAX == 3600
HISTERESE == 2
TEMP_FILTER_SIZE == 5
FASE1_TIMEOUT == 600
TEMP_TOLERANCE == 1
DEFAULT_TARGET_TEMP == 100
DEFAULT_DURATION == 300
DISPLAY_UPDATE_INTERVAL == 1
LOG_INTERVAL == 10
MAX_TEMP_SEGURANCA == 350
MAX_CICLOS_ERRO == 3
\* main.py: the number of readings of the menu's temperature test
TEST_READINGS == 10
RELAY_ACTIVE_HIGH == TRUE

\* ------------------------------------------------------------------ bounds
\* seconds the clock may advance between two reads of time.time()
ClockStep == 400
\* ticks of one cycle that read the same second as the tick before them
MaxShortTicks == 1
\* cancel signals (Ctrl-C) delivered during the life of one controller
MaxCancels == 1
\* consecutive failed exchanges offered to a TemperatureController
MaxErrors == 4
\* valid readings offered to a controller that is driven on its own
MaxReadings == 6

\* --------------------------------------------------------- representation
\* fixed-point units per degree Celsius: 4 quarter-degrees times lcm(1..5)
UnitsPerDegree == 4 * 60
\* Python's None as a temperature (valid temperatures are >= 0)
None == -1

Deg(d) == d * UnitsPerDegree

\* ------------------------------------------------------------------ inputs
\* the 16 sampled bits of a sensor word, most significant first
Bits(w) == [i \in 1..16 |-> (w \div (2 ^ (16 - i))) % 2]
\* the sensor word the MAX6675 sends for a temperature of d degrees
WordOfDeg(d) == d * 4 * 8
\* sampled exchanges: 50, 100 and 400 degC, an open probe, an open probe
\* with a magnitude
SensorWords == {Bits(WordOfDeg(50)), Bits(WordOfDeg(100)), Bits(WordOfDeg(400)),
                Bits(4), Bits(WordOfDeg(100) + 4)}
\* an exchange either delivers 16 bits or raises an exception (exc)
Exchanges == {[exc |-> FALSE, bits |-> b] : b \in SensorWords}
             \cup {[exc |-> TRUE, bits |-> <<>>]}
\* exchanges sampled during the menu's temperature test
TestExchanges == {[exc |-> FALSE, bits |-> Bits(WordOfDeg(400))],
                  [exc |-> FALSE, bits |-> Bits(4)],
                  [exc |-> TRUE, bits |-> <<>>]}
\* exchanges and targets offered to a TemperatureController
TCExchanges == {[exc |-> FALSE, bits |-> Bits(WordOfDeg(50))],
                [exc |-> FALSE, bits |-> Bits(WordOfDeg(400))],
                [exc |-> FALSE, bits |-> Bits(4)],
                [exc |-> TRUE, bits |-> <<>>]}
TCTargets == {DEFAULT_TARGET_TEMP, TEMP_MAX}
\* values the operator may supply for the target temperature and duration:
\* both out of range, both in range
Supplied == {[temp |-> TEMP_MIN - 1, duration |-> DURACAO_MIN - 1],
             [temp |-> TEMP_MAX, duration |-> 2 * ClockStep]}
\* seconds between the clock reads of two successive ticks
ClockAdvances == {0, ClockStep}

VARIABLES
  \* SimpleFurnaceController: settings fixed at construction
  target_temp, duration, display_ok, given_temp, given_duration,
  \* SimpleFurnaceController: filter state, chip-select line, last result
  temp_history, current_temp, max_temp_reached, cs, temp, sampled,
  \* SimpleFurnaceController: heater command, relay line, indicator
  heating_active, relay, control_ok, cycle_active, led,
  \* run_cycle / interactive_menu locals and position
  pc, phase1_start, phase2_start, last_log, elapsed, test_i, reraise,
  \* environment: the clock, the relay module polarity of the build
  now, activeHigh,
  \* history variables (readings: the valid raw readings of the controller)
  ramp_exit, try_exit, hot_at_exit, cancel_at, cancels, reports, stops,
  short_ticks, fails_in_row, readings, report_failed, refresh_at, log_at,
  \* TemperatureController fields and the result of its last filter step
  tc_history, tc_error_count, tc_last_valid_temp, tc_max_temp_reached,
  tc_heating_active, tc_resistencia, tc_result, tc_control_ok,
  tc_errors_in_row, tc_readings, tc_count_before

cfg_vars == <<target_temp, duration, display_ok, activeHigh, given_temp,
              given_duration>>
filter_vars == <<temp_history, current_temp, max_temp_reached, cs, temp,
                 fails_in_row, readings, sampled>>
heat_vars == <<heating_active, relay, control_ok>>
ind_vars == <<cycle_active, led>>
phase_vars == <<phase1_start, phase2_start, last_log>>
time_vars == <<now, short_ticks, elapsed>>
exit_vars == <<ramp_exit, try_exit, hot_at_exit>>
cancel_vars == <<cancel_at, cancels, reraise>>
report_vars == <<report_failed, refresh_at, log_at>>
tc_vars == <<tc_history, tc_error_count, tc_last_valid_temp, tc_max_temp_reached,
             tc_heating_active, tc_resistencia, tc_result, tc_control_ok,
             tc_errors_in_row, tc_readings, tc_count_before>>
vars == <<cfg_vars, filter_vars, heat_vars, ind_vars, phase_vars, time_vars,
          exit_vars, cancel_vars, report_vars, pc, test_i, reports, stops,
          tc_vars>>

\* ------------------------------------------------------------ pure helpers
\* an assembly that takes the first sampled bit as the least significant
RECURSIVE WordOf_LSBFirst(_)
WordOf_LSBFirst(bits) ==
  IF bits = <<>> THEN 0
  ELSE Head(bits) + 2 * WordOf_LSBFirst(Tail(bits))

\* raw_data = (raw_data << 1) | bit, over the sampled bits in arrival order
RECURSIVE ShiftIn(_, _)
ShiftIn(bits, n) ==
  IF n = 0 THEN 0 ELSE ShiftIn(bits, n - 1) * 2 + bits[n]

WordOf(bits) == ShiftIn(bits, Len(bits))

\* raw_data & 0x4
FaultBit(word) == (word \div 4) % 2 = 1

\* (raw_data >> 3) * 0.25
TempOfWord(word) == (word \div 8) * (UnitsPerDegree \div 4)

RECURSIVE SeqSum(_)
SeqSum(s) == IF s = <<>> THEN 0 ELSE Head(s) + SeqSum(Tail(s))

\* a window that drops its newest entry when it is full
PushHistory_EvictNewest(h, t) ==
  LET a == Append(h, t)
  IN IF Len(a) > TEMP_FILTER_SIZE THEN SubSeq(a, 1, TEMP_FILTER_SIZE) ELSE a

\* append, then pop(0) when longer than the filter window
PushHistory(h, t) ==
  LET a == Append(h, t)
  IN IF Len(a) > TEMP_FILTER_SIZE THEN Tail(a) ELSE a

Mean(h) == SeqSum(h) \div Len(h)

\* a validation that clamps to the nearest bound
set_temperature_Clamped(t) ==
  IF t < TEMP_MIN THEN TEMP_MIN ELSE IF t > TEMP_MAX THEN TEMP_MAX ELSE t

set_temperature(t) ==
  IF TEMP_MIN <= t /\ t <= TEMP_MAX THEN t ELSE DEFAULT_TARGET_TEMP

set_duration(d) ==
  IF DURACAO_MIN <= d /\ d <= DURACAO_MAX THEN d ELSE DEFAULT_DURATION

\* the heater element carries current when the relay line is at its active level
HeaterEnergised == relay = activeHigh

\* ------------------------------------------------- positions of the program
RampPcs == {"ramp_top", "ramp_read", "ramp_ctrl", "ramp_report", "ramp_check"}
SoakPcs == {"soak_begin", "soak_top", "soak_read", "soak_ctrl", "soak_report"}
\* positions inside the try block of run_cycle
TryPcs == RampPcs \cup SoakPcs

\* menu choices 1 and 3 build the controller with the defaults, choice 2
\* with the validated values of the operator
Settings(choice) ==
  LET defaults == [temp |-> DEFAULT_TARGET_TEMP, duration |-> DEFAULT_DURATION,
                   given_temp |-> DEFAULT_TARGET_TEMP,
                   given_duration |-> DEFAULT_DURATION]
  IN IF choice = "test"
     THEN {defaults}
     ELSE {defaults}
          \cup {[temp |-> set_temperature(u.temp),
                  duration |-> set_duration(u.duration),
                  given_temp |-> u.temp,
                  given_duration |-> u.duration] : u \in Supplied}

\* ----------------------- TemperatureController.__init__ (temperature.py)
TCInit ==
  /\ tc_history = <<>>
  /\ tc_error_count = 0
  /\ tc_last_valid_temp = Deg(TEMP_AMBIENTE)
  /\ tc_max_temp_reached = 0
  /\ tc_heating_active = FALSE
  /\ tc_resistencia = FALSE
  /\ tc_result = None
  /\ tc_control_ok = TRUE
  /\ tc_errors_in_row = 0
  /\ tc_readings = <<>>
  /\ tc_count_before = 0

\* -------------------------------------- SimpleFurnaceController.__init__
\* the fields after __init__ and setup_hardware, the clock and the history
\* variables of a new controller
InitFields(polarity) ==
  /\ activeHigh = polarity
  /\ temp_history = <<>>
  /\ current_temp = Deg(TEMP_AMBIENTE)
  /\ max_temp_reached = 0
  /\ cs = TRUE
  /\ temp = None
  /\ heating_active = FALSE
  /\ relay = FALSE
  /\ control_ok = TRUE
  /\ cycle_active = FALSE
  /\ led = FALSE
  /\ phase1_start = 0 /\ phase2_start = 0 /\ last_log = 0 /\ elapsed = 0
  /\ test_i = 0 /\ reraise = FALSE
  /\ now = 0
  /\ ramp_exit = "none" /\ try_exit = "none" /\ hot_at_exit = FALSE
  /\ cancel_at = "none" /\ cancels = 0 /\ reports = 0 /\ stops = 0
  /\ short_ticks = 0 /\ fails_in_row = 0
  /\ readings = <<>>
  /\ sampled = <<>>
  /\ report_failed = FALSE /\ refresh_at = None /\ log_at = None
  /\ TCInit

InitBuild(polarity) ==
  /\ pc \in {"constructed", "test"}
  /\ \E u \in Settings(pc) :
       /\ target_temp = u.temp /\ duration = u.duration
       /\ given_temp = u.given_temp /\ given_duration = u.given_duration
  /\ display_ok \in BOOLEAN
  /\ InitFields(polarity)

\* the build of config.py
Init == InitBuild(RELAY_ACTIVE_HIGH)

\* a build for either kind of relay module
InitPolarity == \E polarity \in BOOLEAN : InitBuild(polarity)

\* interactive_menu: a new controller is built for every choice 1, 2 or 3;
\* the clock is counted from the construction of the controller
Construct(u, dok, choice) ==
  /\ pc = "menu"
  /\ pc' = choice
  /\ target_temp' = u.temp
  /\ duration' = u.duration
  /\ given_temp' = u.given_temp
  /\ given_duration' = u.given_duration
  /\ display_ok' = dok
  /\ temp_history' = <<>>
  /\ current_temp' = Deg(TEMP_AMBIENTE)
  /\ max_temp_reached' = 0
  /\ cs' = TRUE
  /\ temp' = None
  /\ heating_active' = FALSE
  /\ relay' = FALSE
  /\ control_ok' = TRUE
  /\ cycle_active' = FALSE
  /\ led' = FALSE
  /\ phase1_start' = 0 /\ phase2_start' = 0 /\ last_log' = 0 /\ elapsed' = 0
  /\ test_i' = 0 /\ reraise' = FALSE
  /\ now' = 0
  /\ ramp_exit' = "none" /\ try_exit' = "none" /\ hot_at_exit' = FALSE
  /\ cancel_at' = "none" /\ cancels' = 0 /\ reports' = 0 /\ stops' = 0
  /\ short_ticks' = 0 /\ fails_in_row' = 0
  /\ readings' = <<>>
  /\ sampled' = <<>>
  /\ report_failed' = FALSE /\ refresh_at' = None /\ log_at' = None
  /\ UNCHANGED <<activeHigh, tc_vars>>

\* menu choice 4
Quit ==
  /\ pc = "menu"
  /\ pc' = "exited"
  /\ UNCHANGED <<cfg_vars, filter_vars, heat_vars, ind_vars, phase_vars,
                 time_vars, exit_vars, cancel_vars, test_i, reports, stops,
                 tc_vars, report_vars>>

\* ------------------------------- SimpleFurnaceController.read_temperature
NextFails == IF fails_in_row < MAX_CICLOS_ERRO THEN fails_in_row + 1
             ELSE fails_in_row

\* a read_temperature that records every filtered output as the maximum
read_temperature_LastAsMax(x) ==
  IF x.exc
  THEN /\ cs' = FALSE
       /\ sampled' = <<>>
       /\ temp' = None
       /\ fails_in_row' = NextFails
       /\ UNCHANGED <<temp_history, current_temp, max_temp_reached, readings>>
  ELSE LET raw_data == WordOf(x.bits)
           h == PushHistory(temp_history, TempOfWord(raw_data))
           filtered_temp == Mean(h)
       IN /\ cs' = TRUE
          /\ sampled' = x.bits
          /\ IF FaultBit(raw_data)
             THEN /\ temp' = None
                  /\ fails_in_row' = NextFails
                  /\ UNCHANGED <<temp_history, current_temp, max_temp_reached,
                                 readings>>
             ELSE /\ temp_history' = h
                  /\ readings' = Append(readings, TempOfWord(raw_data))
                  /\ current_temp' = filtered_temp
                  /\ max_temp_reached' = filtered_temp
                  /\ temp' = filtered_temp
                  /\ fails_in_row' = 0

\* the exchange x either raises (caught: None, chip-select left asserted)
\* or delivers 16 bits that are assembled, checked and filtered
read_temperature(x) ==
  IF x.exc
  THEN /\ cs' = FALSE
       /\ sampled' = <<>>
       /\ temp' = None
       /\ fails_in_row' = NextFails
       /\ UNCHANGED <<temp_history, current_temp, max_temp_reached, readings>>
  ELSE LET raw_data == WordOf(x.bits)
           h == PushHistory(temp_history, TempOfWord(raw_data))
           filtered_temp == Mean(h)
       IN /\ cs' = TRUE
          /\ sampled' = x.bits
          /\ IF FaultBit(raw_data)
             THEN /\ temp' = None
                  /\ fails_in_row' = NextFails
                  /\ UNCHANGED <<temp_history, current_temp, max_temp_reached,
                                 readings>>
             ELSE /\ temp_history' = h
                  /\ readings' = Append(readings, TempOfWord(raw_data))
                  /\ current_temp' = filtered_temp
                  /\ max_temp_reached' =
                       IF filtered_temp > max_temp_reached
                       THEN filtered_temp ELSE max_temp_reached
                  /\ temp' = filtered_temp
                  /\ fails_in_row' = 0

\* a control step whose safety branch drives the relay line high
control_heating_SafetyRelayOn ==
  IF current_temp = None
  THEN /\ relay' = FALSE
       /\ heating_active' = FALSE
       /\ control_ok' = FALSE
  ELSE IF current_temp > Deg(MAX_TEMP_SEGURANCA)
  THEN /\ relay' = TRUE
       /\ heating_active' = FALSE
       /\ control_ok' = FALSE
  ELSE IF current_temp < Deg(target_temp - HISTERESE)
  THEN /\ relay' = activeHigh
       /\ heating_active' = TRUE
       /\ control_ok' = TRUE
  ELSE IF current_temp > Deg(target_temp + HISTERESE)
  THEN /\ relay' = ~activeHigh
       /\ heating_active' = FALSE
       /\ control_ok' = TRUE
  ELSE /\ UNCHANGED <<relay, heating_active>>
       /\ control_ok' = TRUE

\* a control step that never switches the heater off above the dead band
control_heating_NeverOff ==
  IF current_temp = None
  THEN /\ relay' = FALSE
       /\ heating_active' = FALSE
       /\ control_ok' = FALSE
  ELSE IF current_temp > Deg(MAX_TEMP_SEGURANCA)
  THEN /\ relay' = FALSE
       /\ heating_active' = FALSE
       /\ control_ok' = FALSE
  ELSE IF current_temp < Deg(target_temp - HISTERESE)
  THEN /\ relay' = activeHigh
       /\ heating_active' = TRUE
       /\ control_ok' = TRUE
  ELSE /\ UNCHANGED <<relay, heating_active>>
       /\ control_ok' = TRUE

\* a control step whose dead band excludes its upper limit
control_heating_OpenBand ==
  IF current_temp = None
  THEN /\ relay' = FALSE
       /\ heating_active' = FALSE
       /\ control_ok' = FALSE
  ELSE IF current_temp > Deg(MAX_TEMP_SEGURANCA)
  THEN /\ relay' = FALSE
       /\ heating_active' = FALSE
       /\ control_ok' = FALSE
  ELSE IF current_temp < Deg(target_temp - HISTERESE)
  THEN /\ relay' = activeHigh
       /\ heating_active' = TRUE
       /\ control_ok' = TRUE
  ELSE IF current_temp >= Deg(target_temp + HISTERESE)
  THEN /\ relay' = ~activeHigh
       /\ heating_active' = FALSE
       /\ control_ok' = TRUE
  ELSE /\ UNCHANGED <<relay, heating_active>>
       /\ control_ok' = TRUE

\* a control step that applies the hysteresis rules before the safety check
control_heating_HysteresisFirst ==
  IF current_temp = None
  THEN /\ relay' = FALSE
       /\ heating_active' = FALSE
       /\ control_ok' = FALSE
  ELSE IF current_temp < Deg(target_temp - HISTERESE)
  THEN /\ relay' = activeHigh
       /\ heating_active' = TRUE
       /\ control_ok' = TRUE
  ELSE IF current_temp > Deg(MAX_TEMP_SEGURANCA)
  THEN /\ relay' = FALSE
       /\ heating_active' = FALSE
       /\ control_ok' = FALSE
  ELSE IF current_temp > Deg(target_temp + HISTERESE)
  THEN /\ relay' = ~activeHigh
       /\ heating_active' = FALSE
       /\ control_ok' = TRUE
  ELSE /\ UNCHANGED <<relay, heating_active>>
       /\ control_ok' = TRUE

\* -------------------------------- SimpleFurnaceController.control_heating
control_heating ==
  IF current_temp = None
  THEN /\ relay' = FALSE
       /\ heating_active' = FALSE
       /\ control_ok' = FALSE
  ELSE IF current_temp > Deg(MAX_TEMP_SEGURANCA)
  THEN /\ relay' = FALSE
       /\ heating_active' = FALSE
       /\ control_ok' = FALSE
  ELSE IF current_temp < Deg(target_temp - HISTERESE)
  THEN /\ relay' = activeHigh
       /\ heating_active' = TRUE
       /\ control_ok' = TRUE
  ELSE IF current_temp > Deg(target_temp + HISTERESE)
  THEN /\ relay' = ~activeHigh
       /\ heating_active' = FALSE
       /\ control_ok' = TRUE
  ELSE /\ UNCHANGED <<relay, heating_active>>
       /\ control_ok' = TRUE

\* time.time() at the top of a tick: the previous read plus the whole seconds
\* passed since; after a sleep of 0.5 s the same second is read at most once
Tick(adv) ==
  /\ adv = 0 => short_ticks < MaxShortTicks
  /\ now' = now + adv
  /\ short_ticks' = IF adv = 0 THEN short_ticks + 1 ELSE short_ticks

\* the periodic log of a tick (lines 240-242, 290-292)
LogIfDue ==
  last_log' = IF elapsed - last_log >= LOG_INTERVAL THEN elapsed ELSE last_log

\* update_display and log_data of a tick: the display is drawn when there is
\* one, the log record is written when it is due; either may fail (dfail,
\* lfail), and the exception is caught inside the method (lines 151-184,
\* 188-196)
ReportTick(dfail, lfail) ==
  LET due == elapsed - last_log >= LOG_INTERVAL
  IN /\ dfail => display_ok
     /\ lfail => due
     /\ LogIfDue
     /\ report_failed' = (dfail \/ lfail)
     /\ refresh_at' = IF display_ok /\ ~dfail THEN now ELSE refresh_at
     /\ log_at' = IF due /\ ~lfail THEN now ELSE log_at

\* the try block is left: how, and with which heater command
LeaveTry(how, hot) ==
  /\ try_exit' = how
  /\ hot_at_exit' = hot
  /\ UNCHANGED ramp_exit

\* ------------------------------------ SimpleFurnaceController.run_cycle
\* lines 206-208, before the try block
CycleInit ==
  /\ pc = "constructed"
  /\ pc' = "init"
  /\ cycle_active' = TRUE
  /\ led' = TRUE
  /\ max_temp_reached' = 0
  /\ UNCHANGED <<cfg_vars, temp_history, current_temp, cs, temp, fails_in_row,
                 readings, sampled, heat_vars, phase_vars, time_vars, exit_vars, cancel_vars,
                 test_i, reports, stops, tc_vars, report_vars>>

\* lines 210-214: entering the try block, phase 1 starts
EnterTry ==
  /\ pc = "init"
  /\ pc' = "ramp_top"
  /\ phase1_start' = now
  /\ last_log' = 0
  /\ UNCHANGED <<cfg_vars, filter_vars, heat_vars, ind_vars, phase2_start,
                 time_vars, exit_vars, cancel_vars, test_i, reports, stops,
                 tc_vars, report_vars>>

\* lines 217-218
RampTop(adv) ==
  /\ pc = "ramp_top"
  /\ pc' = "ramp_read"
  /\ Tick(adv)
  /\ elapsed' = now' - phase1_start
  /\ report_failed' = FALSE
  /\ UNCHANGED <<cfg_vars, filter_vars, heat_vars, ind_vars, phase_vars,
                 exit_vars, cancel_vars, test_i, reports, stops, tc_vars,
                 refresh_at, log_at>>

\* lines 221-224: a failed reading leaves the phase 1 loop
RampRead(x) ==
  /\ pc = "ramp_read"
  /\ read_temperature(x)
  /\ IF temp' = None
     THEN pc' = "soak_begin" /\ ramp_exit' = "sensor"
     ELSE pc' = "ramp_ctrl" /\ UNCHANGED ramp_exit
  /\ UNCHANGED <<cfg_vars, heat_vars, ind_vars, phase_vars, time_vars,
                 try_exit, hot_at_exit, cancel_vars, test_i, reports, stops,
                 tc_vars, report_vars>>

\* lines 227-229: a refused control step leaves the phase 1 loop
RampCtrl ==
  /\ pc = "ramp_ctrl"
  /\ control_heating
  /\ IF control_ok'
     THEN pc' = "ramp_report" /\ UNCHANGED ramp_exit
     ELSE pc' = "soak_begin" /\ ramp_exit' = "overtemp"
  /\ UNCHANGED <<cfg_vars, filter_vars, ind_vars, phase_vars, time_vars,
                 try_exit, hot_at_exit, cancel_vars, test_i, reports, stops,
                 tc_vars, report_vars>>

\* lines 232-242: status line, display, periodic log
RampReport(dfail, lfail) ==
  /\ pc = "ramp_report"
  /\ pc' = "ramp_check"
  /\ ReportTick(dfail, lfail)
  /\ UNCHANGED <<cfg_vars, filter_vars, heat_vars, ind_vars, phase1_start,
                 phase2_start, time_vars, exit_vars, cancel_vars, test_i,
                 reports, stops, tc_vars>>

\* abs(temp - self.target_temp) <= TEMP_TOLERANCE
WithinTolerance(t, target) ==
  /\ t - Deg(target) <= Deg(TEMP_TOLERANCE)
  /\ Deg(target) - t <= Deg(TEMP_TOLERANCE)

\* a phase 1 that ends only when the target is reached
RampCheck_NoTimeout ==
  /\ pc = "ramp_check"
  /\ IF WithinTolerance(temp, target_temp)
     THEN pc' = "soak_begin" /\ ramp_exit' = "reached"
     ELSE pc' = "ramp_top" /\ UNCHANGED ramp_exit
  /\ UNCHANGED <<cfg_vars, filter_vars, heat_vars, ind_vars, phase_vars,
                 time_vars, try_exit, hot_at_exit, cancel_vars, test_i,
                 reports, stops, tc_vars, report_vars>>

\* lines 245-254: target reached, timeout, or sleep and loop
RampCheck ==
  /\ pc = "ramp_check"
  /\ IF WithinTolerance(temp, target_temp)
     THEN pc' = "soak_begin" /\ ramp_exit' = "reached"
     ELSE IF elapsed > FASE1_TIMEOUT
     THEN pc' = "soak_begin" /\ ramp_exit' = "timeout"
     ELSE pc' = "ramp_top" /\ UNCHANGED ramp_exit
  /\ UNCHANGED <<cfg_vars, filter_vars, heat_vars, ind_vars, phase_vars,
                 time_vars, try_exit, hot_at_exit, cancel_vars, test_i,
                 reports, stops, tc_vars, report_vars>>

\* a phase 2 that keeps the timer of phase 1
SoakBegin_KeepsTimer ==
  /\ pc = "soak_begin"
  /\ pc' = "soak_top"
  /\ phase2_start' = phase1_start
  /\ last_log' = 0
  /\ UNCHANGED <<cfg_vars, filter_vars, heat_vars, ind_vars, phase1_start,
                 time_vars, exit_vars, cancel_vars, test_i, reports, stops,
                 tc_vars, report_vars>>

\* a phase 2 that starts with the heater switched off
SoakBegin_ResetsHeater ==
  /\ pc = "soak_begin"
  /\ pc' = "soak_top"
  /\ phase2_start' = now
  /\ last_log' = 0
  /\ relay' = ~activeHigh
  /\ heating_active' = FALSE
  /\ UNCHANGED <<cfg_vars, filter_vars, control_ok, ind_vars, phase1_start,
                 time_vars, exit_vars, cancel_vars, test_i, reports, stops,
                 tc_vars, report_vars>>

\* lines 256-259: whatever ended the phase 1 loop, phase 2 starts
SoakBegin ==
  /\ pc = "soak_begin"
  /\ pc' = "soak_top"
  /\ phase2_start' = now
  /\ last_log' = 0
  /\ UNCHANGED <<cfg_vars, filter_vars, heat_vars, ind_vars, phase1_start,
                 time_vars, exit_vars, cancel_vars, test_i, reports, stops,
                 tc_vars, report_vars>>

\* a phase 2 that ends only when the elapsed time exceeds the duration
SoakTop_Strict(adv) ==
  /\ pc = "soak_top"
  /\ Tick(adv)
  /\ elapsed' = now' - phase2_start
  /\ IF elapsed' > duration
     THEN pc' = "stop_enter" /\ LeaveTry("completed", heating_active)
     ELSE pc' = "soak_read" /\ UNCHANGED exit_vars
  /\ report_failed' = FALSE
  /\ UNCHANGED <<cfg_vars, filter_vars, heat_vars, ind_vars, phase_vars,
                 cancel_vars, test_i, reports, stops, tc_vars, refresh_at,
                 log_at>>

\* lines 262-268
SoakTop(adv) ==
  /\ pc = "soak_top"
  /\ Tick(adv)
  /\ elapsed' = now' - phase2_start
  /\ IF elapsed' >= duration
     THEN pc' = "stop_enter" /\ LeaveTry("completed", heating_active)
     ELSE pc' = "soak_read" /\ UNCHANGED exit_vars
  /\ report_failed' = FALSE
  /\ UNCHANGED <<cfg_vars, filter_vars, heat_vars, ind_vars, phase_vars,
                 cancel_vars, test_i, reports, stops, tc_vars, refresh_at,
                 log_at>>

\* lines 271-274
SoakRead(x) ==
  /\ pc = "soak_read"
  /\ read_temperature(x)
  /\ IF temp' = None
     THEN pc' = "stop_enter" /\ LeaveTry("sensor", heating_active)
     ELSE pc' = "soak_ctrl" /\ UNCHANGED exit_vars
  /\ UNCHANGED <<cfg_vars, heat_vars, ind_vars, phase_vars, time_vars,
                 cancel_vars, test_i, reports, stops, tc_vars, report_vars>>

\* lines 277-279
SoakCtrl ==
  /\ pc = "soak_ctrl"
  /\ control_heating
  /\ IF control_ok'
     THEN pc' = "soak_report" /\ UNCHANGED exit_vars
     ELSE pc' = "stop_enter" /\ LeaveTry("overtemp", heating_active')
  /\ UNCHANGED <<cfg_vars, filter_vars, ind_vars, phase_vars, time_vars,
                 cancel_vars, test_i, reports, stops, tc_vars, report_vars>>

\* a tick of phase 2 whose display or log failure escapes into run_cycle
SoakReport_Raises(dfail, lfail) ==
  /\ pc = "soak_report"
  /\ ReportTick(dfail, lfail)
  /\ IF dfail \/ lfail
     THEN pc' = "except_exc" /\ LeaveTry("exception", heating_active)
     ELSE pc' = "soak_top" /\ UNCHANGED exit_vars
  /\ UNCHANGED <<cfg_vars, filter_vars, heat_vars, ind_vars, phase1_start,
                 phase2_start, time_vars, cancel_vars, test_i, reports, stops,
                 tc_vars>>

\* lines 282-294: status line, display, periodic log, sleep
SoakReport(dfail, lfail) ==
  /\ pc = "soak_report"
  /\ pc' = "soak_top"
  /\ ReportTick(dfail, lfail)
  /\ UNCHANGED <<cfg_vars, filter_vars, heat_vars, ind_vars, phase1_start,
                 phase2_start, time_vars, exit_vars, cancel_vars, test_i,
                 reports, stops, tc_vars>>

\* lines 296-297: KeyboardInterrupt raised inside the try block is caught
\* there; raised in a handler it is re-raised after the finally clause has
\* run; raised anywhere else it leaves run_cycle or stop_cycle at once and
\* ends the program in __main__ (lines 407-408)
Cancel ==
  /\ cancels < MaxCancels
  /\ pc # "exited"
  /\ cancels' = cancels + 1
  /\ cancel_at' = IF cancel_at = "none" THEN pc ELSE cancel_at
  /\ IF pc \in TryPcs
     THEN /\ pc' = "except_kbd"
          /\ LeaveTry("cancel", heating_active)
          /\ UNCHANGED reraise
     ELSE IF pc \in {"except_kbd", "except_exc"}
     THEN /\ pc' = "stop_enter"
          /\ reraise' = TRUE
          /\ UNCHANGED exit_vars
     ELSE /\ pc' = "exited"
          /\ UNCHANGED <<reraise, exit_vars>>
  /\ UNCHANGED <<cfg_vars, filter_vars, heat_vars, ind_vars, phase_vars,
                 time_vars, test_i, reports, stops, tc_vars, report_vars>>

\* lines 298-299: an exception other than KeyboardInterrupt escapes a
\* statement of the try block
Unexpected ==
  /\ pc \in TryPcs
  /\ pc' = "except_exc"
  /\ LeaveTry("exception", heating_active)
  /\ UNCHANGED <<cfg_vars, filter_vars, heat_vars, ind_vars, phase_vars,
                 time_vars, cancel_vars, test_i, reports, stops, tc_vars, report_vars>>

\* lines 297, 299, 300-302: the handler prints, then the finally clause runs
Handler ==
  /\ pc \in {"except_kbd", "except_exc"}
  /\ pc' = "stop_enter"
  /\ UNCHANGED <<cfg_vars, filter_vars, heat_vars, ind_vars, phase_vars,
                 time_vars, exit_vars, cancel_vars, test_i, reports, stops,
                 tc_vars, report_vars>>

\* a stop_cycle that clears the indicator and the flags but not the relay
StopOff_KeepsHeater ==
  /\ pc = "stop_enter"
  /\ pc' = "stop_report"
  /\ led' = FALSE
  /\ cycle_active' = FALSE
  /\ stops' = stops + 1
  /\ report_failed' = FALSE
  /\ UNCHANGED <<cfg_vars, filter_vars, heat_vars, phase_vars, time_vars,
                 exit_vars, cancel_vars, test_i, reports, tc_vars, refresh_at,
                 log_at>>

\* ------------------------------------ SimpleFurnaceController.stop_cycle
\* lines 306-312
StopOff ==
  /\ pc = "stop_enter"
  /\ pc' = "stop_report"
  /\ relay' = FALSE
  /\ led' = FALSE
  /\ heating_active' = FALSE
  /\ cycle_active' = FALSE
  /\ stops' = stops + 1
  /\ report_failed' = FALSE
  /\ UNCHANGED <<cfg_vars, filter_vars, control_ok, phase_vars, time_vars,
                 exit_vars, cancel_vars, test_i, reports, tc_vars, refresh_at,
                 log_at>>

\* lines 315-316: the final report
StopReport ==
  /\ pc = "stop_report"
  /\ pc' = "stop_display"
  /\ reports' = reports + 1
  /\ UNCHANGED <<cfg_vars, filter_vars, heat_vars, ind_vars, phase_vars,
                 time_vars, exit_vars, cancel_vars, test_i, stops, tc_vars, report_vars>>

\* lines 319-329: the final display update, whose failure (dfail) is caught
\* by the bare except; then the return to the menu or the pending re-raise
StopDisplay(dfail) ==
  /\ pc = "stop_display"
  /\ dfail => display_ok
  /\ pc' = IF reraise THEN "exited" ELSE "menu"
  /\ report_failed' = dfail
  /\ UNCHANGED <<cfg_vars, filter_vars, heat_vars, ind_vars, phase_vars,
                 time_vars, exit_vars, cancel_vars, test_i, reports, stops,
                 tc_vars, refresh_at, log_at>>

\* ------------------------------------ interactive_menu, choice 3 (380-392)
TestRead(x) ==
  /\ pc = "test"
  /\ test_i < TEST_READINGS
  /\ read_temperature(x)
  /\ test_i' = test_i + 1
  /\ UNCHANGED <<cfg_vars, heat_vars, ind_vars, phase_vars, time_vars,
                 exit_vars, cancel_vars, pc, reports, stops, tc_vars, report_vars>>

TestDone ==
  /\ pc = "test"
  /\ test_i = TEST_READINGS
  /\ pc' = "stop_enter"
  /\ UNCHANGED <<cfg_vars, filter_vars, heat_vars, ind_vars, phase_vars,
                 time_vars, exit_vars, cancel_vars, test_i, reports, stops,
                 tc_vars, report_vars>>

Next ==
  \/ \E choice \in {"constructed", "test"}, dok \in BOOLEAN :
       \E u \in Settings(choice) : Construct(u, dok, choice)
  \/ Quit
  \/ CycleInit
  \/ EnterTry
  \/ \E adv \in ClockAdvances : RampTop(adv)
  \/ \E x \in Exchanges : RampRead(x)
  \/ RampCtrl
  \/ RampReport(FALSE, FALSE)
  \/ RampCheck
  \/ SoakBegin
  \/ \E adv \in ClockAdvances : SoakTop(adv)
  \/ \E x \in Exchanges : SoakRead(x)
  \/ SoakCtrl
  \/ SoakReport(FALSE, FALSE)
  \/ Cancel
  \/ Unexpected
  \/ Handler
  \/ StopOff
  \/ StopReport
  \/ StopDisplay(FALSE)
  \/ \E x \in TestExchanges : TestRead(x)
  \/ TestDone

Spec == Init /\ [][Next]_vars

\* exchanges of a cycle whose display and log may fail: 50 and 100 degC, an
\* open probe
ReportExchanges == {[exc |-> FALSE, bits |-> Bits(WordOfDeg(50))],
                    [exc |-> FALSE, bits |-> Bits(WordOfDeg(100))],
                    [exc |-> FALSE, bits |-> Bits(4)]}

\* the statements of run_cycle and of the entry of stop_cycle: the
\* interpreter executes the next one, and time.sleep returns
CycleStep ==
  \/ EnterTry
  \/ \E adv \in ClockAdvances : RampTop(adv)
  \/ \E x \in Exchanges : RampRead(x)
  \/ RampCtrl
  \/ RampReport(FALSE, FALSE)
  \/ RampCheck
  \/ SoakBegin
  \/ \E adv \in ClockAdvances : SoakTop(adv)
  \/ \E x \in Exchanges : SoakRead(x)
  \/ SoakCtrl
  \/ SoakReport(FALSE, FALSE)
  \/ Handler
  \/ StopOff

\* the program with a cycle that keeps running once it has started
SpecLive == Spec /\ WF_vars(CycleStep)

\* the cycles of the menu with a display and a log file that may fail at any
\* tick and in the final display update
NextReport ==
  \/ \E dok \in BOOLEAN :
       \E u \in Settings("constructed") : Construct(u, dok, "constructed")
  \/ CycleInit
  \/ EnterTry
  \/ \E adv \in ClockAdvances : RampTop(adv)
  \/ \E x \in ReportExchanges : RampRead(x)
  \/ RampCtrl
  \/ \E dfail, lfail \in BOOLEAN : RampReport(dfail, lfail)
  \/ RampCheck
  \/ SoakBegin
  \/ \E adv \in ClockAdvances : SoakTop(adv)
  \/ \E x \in ReportExchanges : SoakRead(x)
  \/ SoakCtrl
  \/ \E dfail, lfail \in BOOLEAN : SoakReport(dfail, lfail)
  \/ StopOff
  \/ StopReport
  \/ \E dfail \in BOOLEAN : StopDisplay(dfail)

SpecReport == Init /\ [][NextReport]_vars

\* the same program built for either relay polarity
SpecPolarity == InitPolarity /\ [][Next]_vars

\* ------------------------------------------------- TemperatureController
\* the variables of the program other than the controller's own fields
main_frame == <<phase_vars, time_vars, exit_vars, cancel_vars, pc, test_i,
                reports, stops, report_vars>>

\* a read_temperature_raw that leaves the error counter alone on success
RawResult_KeepsCount(x) ==
  IF x.exc THEN [temp |-> None, error_count |-> tc_error_count + 1]
  ELSE IF FaultBit(WordOf(x.bits))
  THEN [temp |-> None, error_count |-> tc_error_count]
  ELSE [temp |-> TempOfWord(WordOf(x.bits)), error_count |-> tc_error_count]

\* read_temperature_raw: the value returned and the error counter after it;
\* only an exception counts as an error, a word with the fault bit does not
RawResult(x) ==
  IF x.exc THEN [temp |-> None, error_count |-> tc_error_count + 1]
  ELSE IF FaultBit(WordOf(x.bits))
  THEN [temp |-> None, error_count |-> tc_error_count]
  ELSE [temp |-> TempOfWord(WordOf(x.bits)), error_count |-> 0]

\* read_temperature_filtered, lines 76-98
tc_read_temperature_filtered(x) ==
  LET r == RawResult(x)
      h == PushHistory(tc_history, r.temp)
      filtered_temp == Mean(h)
  IN /\ tc_error_count' = r.error_count
     /\ tc_count_before' = tc_error_count
     /\ tc_errors_in_row' = IF r.temp = None THEN tc_errors_in_row + 1 ELSE 0
     /\ IF r.temp # None
        THEN /\ tc_history' = h
             /\ tc_readings' = Append(tc_readings, r.temp)
             /\ tc_last_valid_temp' = filtered_temp
             /\ tc_max_temp_reached' =
                  IF filtered_temp > tc_max_temp_reached
                  THEN filtered_temp ELSE tc_max_temp_reached
             /\ tc_result' = filtered_temp
        ELSE /\ tc_result' = IF r.error_count < MAX_CICLOS_ERRO
                             THEN tc_last_valid_temp ELSE None
             /\ UNCHANGED <<tc_history, tc_readings, tc_last_valid_temp,
                            tc_max_temp_reached>>
     /\ UNCHANGED <<tc_heating_active, tc_resistencia, tc_control_ok>>

\* the exchanges offered to a controller are bounded: failed ones in a row,
\* and valid ones in all
Offered(x, failed, valid) ==
  IF x.exc \/ FaultBit(WordOf(x.bits))
  THEN failed < MaxErrors
  ELSE valid < MaxReadings

\* a filter step of a TemperatureController on its own
TCReadFiltered(x) ==
  /\ Offered(x, tc_errors_in_row, Len(tc_readings))
  /\ tc_read_temperature_filtered(x)
  /\ UNCHANGED <<cfg_vars, filter_vars, heat_vars, ind_vars, main_frame>>

\* control_heating(current_temp, target_temp), lines 100-124
tc_control_heating(current, target) ==
  /\ IF current = None
     THEN /\ tc_resistencia' = FALSE
          /\ tc_heating_active' = FALSE
          /\ tc_control_ok' = FALSE
     ELSE IF current > Deg(MAX_TEMP_SEGURANCA)
     THEN /\ tc_resistencia' = FALSE
          /\ tc_heating_active' = FALSE
          /\ tc_control_ok' = FALSE
     ELSE IF current < Deg(target - HISTERESE)
     THEN /\ tc_resistencia' = TRUE
          /\ tc_heating_active' = TRUE
          /\ tc_control_ok' = TRUE
     ELSE IF current > Deg(target + HISTERESE)
     THEN /\ tc_resistencia' = FALSE
          /\ tc_heating_active' = FALSE
          /\ tc_control_ok' = TRUE
     ELSE /\ UNCHANGED <<tc_resistencia, tc_heating_active>>
          /\ tc_control_ok' = TRUE

\* a control step of a TemperatureController on its own, fed with the last
\* filter result
TCControl(target) ==
  /\ tc_control_heating(tc_result, target)
  /\ UNCHANGED <<tc_history, tc_error_count, tc_last_valid_temp,
                 tc_max_temp_reached, tc_result, tc_errors_in_row,
                 tc_readings, tc_count_before>>
  /\ UNCHANGED <<cfg_vars, filter_vars, heat_vars, ind_vars, main_frame>>

InitTC ==
  /\ Init
  /\ pc = "constructed"
  /\ target_temp = DEFAULT_TARGET_TEMP
  /\ given_temp = DEFAULT_TARGET_TEMP
  /\ display_ok

NextTC ==
  \/ \E x \in TCExchanges : TCReadFiltered(x)
  \/ \E target \in TCTargets : TCControl(target)

\* a TemperatureController driven by a sequence of exchanges
SpecTC == InitTC /\ [][NextTC]_vars

\* reset_max_temperature, lines 149-151: what a TemperatureController offers
\* for the start of a cycle
TCResetMax ==
  /\ tc_max_temp_reached' = 0
  /\ UNCHANGED <<tc_history, tc_error_count, tc_last_valid_temp, tc_result,
                 tc_errors_in_row, tc_readings, tc_count_before,
                 tc_heating_active, tc_resistencia, tc_control_ok>>
  /\ UNCHANGED <<cfg_vars, filter_vars, heat_vars, ind_vars, main_frame>>

NextRestart ==
  \/ \E x \in TCExchanges : TCReadFiltered(x)
  \/ TCResetMax

\* a TemperatureController used for one cycle after another
SpecRestart == InitTC /\ [][NextRestart]_vars

\* ------------------------------------------- the control step on its own
\* filtered temperatures handed to a control step: around the dead band of
\* each target, at and above the safety ceiling
ControlTemps ==
  {Deg(TEMP_AMBIENTE), Deg(MAX_TEMP_SEGURANCA), Deg(MAX_TEMP_SEGURANCA) + 60,
   Deg(MAX_TEMP_SEGURANCA + 1), Deg(MAX_TEMP_SEGURANCA + 50)}
  \cup UNION {{Deg(t - HISTERESE) - 60, Deg(t - HISTERESE), Deg(t) - 60,
               Deg(t + HISTERESE), Deg(t + HISTERESE) + 60}
              : t \in {DEFAULT_TARGET_TEMP, TEMP_MAX}}
\* targets given to the constructor: the default, the largest the menu
\* accepts, and one above the safety ceiling
ControlTargets == {DEFAULT_TARGET_TEMP, TEMP_MAX, MAX_TEMP_SEGURANCA + 50}

\* a new controller whose first control step sees the initial current_temp
InitControl ==
  /\ pc = "ctl_ctrl"
  /\ target_temp \in ControlTargets
  /\ duration = DEFAULT_DURATION
  /\ given_temp = target_temp
  /\ given_duration = duration
  /\ display_ok = TRUE
  /\ InitFields(RELAY_ACTIVE_HIGH)

\* the filter hands the temperature t to both controllers
ControlFeed(t) ==
  /\ pc = "ctl_read"
  /\ pc' = "ctl_ctrl"
  /\ current_temp' = t
  /\ tc_result' = t
  /\ UNCHANGED <<cfg_vars, temp_history, max_temp_reached, cs, temp,
                 fails_in_row, readings, sampled, heat_vars, ind_vars,
                 phase_vars, time_vars, exit_vars, cancel_vars, test_i,
                 reports, stops, report_vars>>
  /\ UNCHANGED <<tc_history, tc_error_count, tc_last_valid_temp,
                 tc_max_temp_reached, tc_heating_active, tc_resistencia,
                 tc_control_ok, tc_errors_in_row, tc_readings,
                 tc_count_before>>

\* both controllers take a control step on the temperature they were handed
ControlStep ==
  /\ pc = "ctl_ctrl"
  /\ pc' = "ctl_read"
  /\ control_heating
  /\ tc_control_heating(tc_result, target_temp)
  /\ UNCHANGED <<cfg_vars, filter_vars, ind_vars, phase_vars, time_vars,
                 exit_vars, cancel_vars, test_i, reports, stops, report_vars>>
  /\ UNCHANGED <<tc_history, tc_error_count, tc_last_valid_temp,
                 tc_max_temp_reached, tc_result, tc_errors_in_row,
                 tc_readings, tc_count_before>>

NextControl ==
  \/ \E t \in ControlTemps : ControlFeed(t)
  \/ ControlStep

\* control_heating of both controllers driven by a sequence of temperatures
SpecControl == InitControl /\ [][NextControl]_vars

\* ---------------------------------------------- the filter step on its own
InitFilter ==
  /\ pc = "filter"
  /\ target_temp = DEFAULT_TARGET_TEMP
  /\ duration = DEFAULT_DURATION
  /\ given_temp = target_temp
  /\ given_duration = duration
  /\ display_ok = TRUE
  /\ InitFields(RELAY_ACTIVE_HIGH)

\* both controllers read the same exchange
FilterStep(x) ==
  /\ pc = "filter"
  /\ Offered(x, tc_errors_in_row, Len(readings))
  /\ read_temperature(x)
  /\ tc_read_temperature_filtered(x)
  /\ UNCHANGED <<cfg_vars, heat_vars, ind_vars, main_frame>>

NextFilter == \E x \in Exchanges : FilterStep(x)

\* read_temperature and read_temperature_filtered driven by a sequence of
\* exchanges
SpecFilter == InitFilter /\ [][NextFilter]_vars

\* ------------------------------------------- menu choice 2 on its own
\* target temperatures and durations the operator may type
TypedTemps == {0, TEMP_MIN - 1, TEMP_MIN, DEFAULT_TARGET_TEMP + 50, TEMP_MAX,
               TEMP_MAX + 1, MAX_TEMP_SEGURANCA + 50}
TypedDurations == {0, DURACAO_MIN - 1, DURACAO_MIN, DEFAULT_DURATION + 60,
                   DURACAO_MAX, DURACAO_MAX + 1}

\* the menu before any controller is built
InitMenu ==
  /\ pc = "menu"
  /\ target_temp = DEFAULT_TARGET_TEMP
  /\ duration = DEFAULT_DURATION
  /\ given_temp = target_temp
  /\ given_duration = duration
  /\ display_ok = TRUE
  /\ InitFields(RELAY_ACTIVE_HIGH)

\* lines 367-374: the typed values are validated and the controller is built
Configure(t, d, dok) ==
  Construct([temp |-> set_temperature(t), duration |-> set_duration(d),
             given_temp |-> t, given_duration |-> d], dok, "constructed")

NextMenu ==
  \/ \E t \in TypedTemps, d \in TypedDurations, dok \in BOOLEAN :
       Configure(t, d, dok)
  \/ CycleInit

\* the settings a cycle starts with, for every pair of typed values
SpecMenu == InitMenu /\ [][NextMenu]_vars

\* ------------------------------------------ one sensor exchange on its own
\* the 12-bit magnitudes of the sampled words: 0, 0.25, 20, 25, 100, 300,
\* 350 and 1023.75 degC
DecodeMagnitudes == {0, 1, 4 * TEMP_AMBIENTE, 4 * TEMP_MIN,
                     4 * DEFAULT_TARGET_TEMP, 4 * TEMP_MAX,
                     4 * MAX_TEMP_SEGURANCA, 4095}
\* every magnitude with every value of the three low bits (fault, device id,
\* state) and of the dummy sign bit
DecodeExchanges ==
  {[exc |-> FALSE, bits |-> Bits(sign * 32768 + m * 8 + low)] :
     sign \in 0..1, m \in DecodeMagnitudes, low \in 0..7}
  \cup {[exc |-> TRUE, bits |-> <<>>]}

InitDecode ==
  /\ pc = "decode"
  /\ target_temp = DEFAULT_TARGET_TEMP
  /\ duration = DEFAULT_DURATION
  /\ given_temp = target_temp
  /\ given_duration = duration
  /\ display_ok = TRUE
  /\ InitFields(RELAY_ACTIVE_HIGH)

\* the first acquisition of both controllers, on the same exchange
DecodeStep(x) ==
  /\ pc = "decode"
  /\ pc' = "decoded"
  /\ read_temperature(x)
  /\ tc_read_temperature_filtered(x)
  /\ UNCHANGED <<cfg_vars, heat_vars, ind_vars, phase_vars, time_vars,
                 exit_vars, cancel_vars, test_i, reports, stops, report_vars>>

NextDecode == \E x \in DecodeExchanges : DecodeStep(x)

SpecDecode == InitDecode /\ [][NextDecode]_vars

\* ========================================================== properties

\* the cycle went through an error path: a fault ended phase 1, or the try
\* block was left by a fault, an exception or a cancellation
ErrorPath ==
  \/ ramp_exit \in {"sensor", "overtemp", "timeout"}
  \/ try_exit \in {"sensor", "overtemp", "exception", "cancel"}

\* C1: on every error path of run_cycle the heater is off (element
\* de-energised, heating_active false) when stop_cycle is about to emit the
\* final report, and after it has emitted it
C1_HeaterOffBeforeReport ==
  (ErrorPath /\ (pc = "stop_report" \/ reports > 0))
    => (~heating_active /\ ~HeaterEnergised)

\* the final report is about to be emitted for a cycle that lost its sensor
\* in phase 2 while the heater was on
C1_Witness ==
  pc = "stop_report" /\ try_exit = "sensor" /\ hot_at_exit

\* positions of an active cycle at which current_temp is the temperature the
\* last control step has seen
AfterControl ==
  \/ pc \in TryPcs \ {"ramp_ctrl", "soak_ctrl"}
  \/ pc = "stop_enter" /\ try_exit = "overtemp"

\* C2: after a control step of an active cycle, in either phase and for any
\* target, a filtered temperature above MAX_TEMP_SEGURANCA means heater off
C2_HeaterOffAboveCeiling ==
  (cycle_active /\ AfterControl /\ current_temp > Deg(MAX_TEMP_SEGURANCA))
    => (~heating_active /\ ~HeaterEnergised)

\* a control step of phase 2 has just seen a temperature above the ceiling
C2_Witness ==
  /\ pc = "stop_enter" /\ try_exit = "overtemp" /\ cycle_active
  /\ current_temp > Deg(MAX_TEMP_SEGURANCA)

\* C3: the cycle is in phase 2 (Soak) only if a tick of phase 1 saw a
\* filtered temperature within tolerance of the target
C3_SoakOnlyAfterTargetReached ==
  pc \in SoakPcs => ramp_exit = "reached"

\* C4: after a ramp timeout the cycle is aborted: the heater is off and the
\* cycle executes no step of phase 2
C4_RampTimeoutAborts ==
  ramp_exit = "timeout" => (~heating_active /\ pc \notin SoakPcs)

\* C5: after a sensor failure in phase 1 the cycle is aborted: the heater is
\* forced off and the cycle executes no step of phase 2
C5_RampSensorFailureAborts ==
  ramp_exit = "sensor"
    => (~heating_active /\ ~HeaterEnergised /\ pc \notin SoakPcs)

\* C6: once a control step of the cycle has signalled over-temperature, the
\* heater is never commanded on again in that cycle
C6_OverTemperatureTerminal ==
  (ramp_exit = "overtemp" \/ try_exit = "overtemp") => ~heating_active

\* C7: a single failed acquisition that follows a valid reading does not end
\* the phase of the tick it happens in: neither phase 1, nor the phase 2 of
\* a cycle that has reached its target
C7_GlitchNotSurfaced ==
  (temp = None /\ fails_in_row = 1 /\ temp_history # <<>>)
    => /\ ~(pc = "soak_begin" /\ ramp_exit = "sensor")
       /\ ~(pc = "stop_enter" /\ try_exit = "sensor" /\ ramp_exit = "reached")

\* C8: every failed reading of a TemperatureController (fault bit or
\* exception) increments the error counter, and the filter step returns the
\* last valid temperature below MAX_CICLOS_ERRO and None from there on
C8_EveryErrorCounted ==
  tc_errors_in_row > 0
    => /\ tc_error_count = tc_errors_in_row
       /\ tc_result = IF tc_errors_in_row < MAX_CICLOS_ERRO
                      THEN tc_last_valid_temp ELSE None

\* positions right after a control step or after the switch-off of stop_cycle
AfterControlOrStop ==
  \/ pc \in {"ramp_report", "soak_report", "stop_report", "stop_display"}
  \/ pc = "soak_begin" /\ ramp_exit = "overtemp"
  \/ pc = "stop_enter" /\ try_exit = "overtemp"

\* C9: for either relay polarity, after a control step and after stop_cycle
\* the heater element is energised exactly when heating_active is true
C9_PolarityApplied ==
  AfterControlOrStop => (HeaterEnergised <=> heating_active)

\* a single cancel signal has arrived at a point of an active cycle: inside
\* a phase, or on entry to stop_cycle after the phase 2 loop has ended
CancelledCycle ==
  /\ cancels = 1
  /\ try_exit \in {"cancel", "completed", "sensor", "overtemp"}
  /\ cancel_at \in TryPcs \cup {"stop_enter"}

\* C10: whenever a cancel signal arrives during an active cycle, the cycle
\* does not end with the heater on
C10_CancelNeverLeavesHeaterOn ==
  (CancelledCycle /\ pc \in {"menu", "exited"})
    => (~heating_active /\ ~HeaterEnergised)

\* the cycle has ended, normally or by a fault or a cancel signal: stop_cycle
\* has switched off, or the program has left run_cycle
CycleEnded ==
  /\ try_exit \in {"completed", "sensor", "overtemp", "cancel"}
  /\ pc \in {"stop_report", "stop_display", "menu", "exited"}

\* C11: once a cycle has ended (completion, fault or cancellation) the heater
\* is off and the indicator LED is off, and they stay off until the next
\* controller is built
C11_TerminalHeaterAndLedOff ==
  CycleEnded => (~heating_active /\ ~HeaterEnergised /\ ~led)

\* C12: outside the sensor exchange the chip-select line is deasserted
\* (high), whichever way the last exchange ended
C12_ChipSelectDeasserted ==
  cs = TRUE

\* the temperature t lies in the dead band of the target, limits included
InBand(t, target) ==
  Deg(target - HISTERESE) <= t /\ t <= Deg(target + HISTERESE)

\* the temperature t is a reading that is not above the safety ceiling
UnderCeiling(t) == t # None /\ t <= Deg(MAX_TEMP_SEGURANCA)

\* C13: after a control step on a temperature that is not above the safety
\* ceiling, a temperature below target - HISTERESE has the heater on and one
\* above target + HISTERESE has it off, in both controllers and whatever the
\* command was before
C13_HysteresisOutsideBand ==
  pc = "ctl_read" =>
    /\ (UnderCeiling(current_temp)
        /\ current_temp < Deg(target_temp - HISTERESE))
         => (heating_active /\ HeaterEnergised)
    /\ (UnderCeiling(current_temp)
        /\ current_temp > Deg(target_temp + HISTERESE))
         => (~heating_active /\ ~HeaterEnergised)
    /\ (UnderCeiling(tc_result) /\ tc_result < Deg(target_temp - HISTERESE))
         => (tc_heating_active /\ tc_resistencia)
    /\ (UnderCeiling(tc_result) /\ tc_result > Deg(target_temp + HISTERESE))
         => (~tc_heating_active /\ ~tc_resistencia)

\* a control step has switched both heaters off above the dead band of the
\* largest target of the menu
C13_Witness ==
  /\ pc = "ctl_read"
  /\ target_temp = TEMP_MAX
  /\ current_temp = Deg(TEMP_MAX + HISTERESE) + 60
  /\ tc_result = current_temp
  /\ ~heating_active /\ ~tc_heating_active

\* C14: a control step on a temperature inside the dead band (limits
\* included, not above the safety ceiling) leaves the heater command and the
\* output line of both controllers as they were
C14_DeadBandHolds ==
  [][(pc = "ctl_ctrl" /\ UnderCeiling(current_temp) /\ UnderCeiling(tc_result)
      /\ InBand(current_temp, target_temp) /\ InBand(tc_result, target_temp))
       => /\ heating_active' = heating_active
          /\ relay' = relay
          /\ tc_heating_active' = tc_heating_active
          /\ tc_resistencia' = tc_resistencia]_vars

\* a control step has held the heaters on at the upper limit of the dead band
C14_Witness ==
  /\ pc = "ctl_read"
  /\ current_temp = Deg(target_temp + HISTERESE)
  /\ tc_result = current_temp
  /\ heating_active /\ HeaterEnergised
  /\ tc_heating_active /\ tc_resistencia

\* C15: after a control step on a temperature above the safety ceiling the
\* heater is off and the step has returned False, in both controllers, for
\* every target and previous command
C15_OverTemperatureFirst ==
  pc = "ctl_read" =>
    /\ current_temp > Deg(MAX_TEMP_SEGURANCA)
         => (~heating_active /\ ~HeaterEnergised /\ ~control_ok)
    /\ tc_result > Deg(MAX_TEMP_SEGURANCA)
         => (~tc_heating_active /\ ~tc_resistencia /\ ~tc_control_ok)

\* a control step has refused a temperature above the ceiling that lies below
\* the dead band of the target
C15_Witness ==
  /\ pc = "ctl_read"
  /\ current_temp = Deg(MAX_TEMP_SEGURANCA + 1)
  /\ current_temp < Deg(target_temp - HISTERESE)
  /\ tc_result = current_temp
  /\ ~heating_active /\ ~control_ok
  /\ ~tc_heating_active /\ ~tc_control_ok

\* the last n entries of the sequence s, all of them when it is shorter
LastN(s, n) ==
  IF Len(s) <= n THEN s ELSE SubSeq(s, Len(s) - n + 1, Len(s))

\* the filtered output for the k-th valid reading of the sequence s
FilteredAt(s, k) == Mean(LastN(SubSeq(s, 1, k), TEMP_FILTER_SIZE))

\* the largest filtered output over the valid readings s (0 before any)
MaxFiltered(s) ==
  IF s = <<>> THEN 0
  ELSE CHOOSE m \in {FilteredAt(s, k) : k \in 1..Len(s)} :
         \A k \in 1..Len(s) : FilteredAt(s, k) <= m

\* C16: the recorded maximum of each controller equals the largest filtered
\* output produced so far, and no step (valid or failed reading) lowers it
C16_MaxIsRunningMaximum ==
  /\ [](/\ max_temp_reached = MaxFiltered(readings)
        /\ tc_max_temp_reached = MaxFiltered(tc_readings))
  /\ [][/\ max_temp_reached' >= max_temp_reached
        /\ tc_max_temp_reached' >= tc_max_temp_reached]_vars

\* a failed reading follows filtered outputs of which the last is not the
\* largest
C16_Witness ==
  /\ pc = "filter"
  /\ temp = None
  /\ Len(readings) >= 2
  /\ current_temp < max_temp_reached
  /\ tc_last_valid_temp < tc_max_temp_reached

\* C17: the history of each controller holds the last TEMP_FILTER_SIZE valid
\* readings in arrival order (all of them while there are fewer; failed
\* readings are not stored), and the filtered value is their mean
C17_SlidingWindow ==
  /\ temp_history = LastN(readings, TEMP_FILTER_SIZE)
  /\ tc_history = LastN(tc_readings, TEMP_FILTER_SIZE)
  /\ readings # <<>> =>
       current_temp * Len(temp_history) = SeqSum(LastN(readings, TEMP_FILTER_SIZE))
  /\ tc_readings # <<>> =>
       tc_last_valid_temp * Len(tc_history)
         = SeqSum(LastN(tc_readings, TEMP_FILTER_SIZE))

\* more than TEMP_FILTER_SIZE valid readings have arrived, the evicted one
\* differs from the newest, and a failed reading lies among them
C17_Witness ==
  /\ pc = "filter"
  /\ Len(readings) > TEMP_FILTER_SIZE
  /\ Head(readings) # readings[Len(readings)]
  /\ Head(readings) # Head(temp_history)
  /\ tc_history = temp_history
  /\ fails_in_row > 0

\* C18: after a filter step on a successful raw reading the error counter of
\* the TemperatureController is 0 and the step has returned a temperature
C18_SuccessResetsErrorCount ==
  (tc_errors_in_row = 0 /\ tc_readings # <<>>)
    => (tc_error_count = 0 /\ tc_result # None)

\* a successful reading has followed MAX_CICLOS_ERRO or more counted errors
C18_Witness ==
  /\ tc_errors_in_row = 0
  /\ tc_count_before >= MAX_CICLOS_ERRO
  /\ tc_error_count = 0
  /\ tc_result # None

\* C19: a tick of phase 1 whose filtered reading is within TEMP_TOLERANCE of
\* the target does not loop: unless it is interrupted, the cycle goes on to
\* phase 2, which takes its start time from the clock at the transition, and
\* the elapsed time of phase 2 is counted from that start
C19_RampToSoakTransition ==
  /\ [][(pc = "ramp_check" /\ WithinTolerance(temp, target_temp)
         /\ pc' \in TryPcs)
          => (pc' = "soak_begin" /\ ramp_exit' = "reached")]_vars
  /\ [][(pc = "soak_begin" /\ pc' = "soak_top") => phase2_start' = now]_vars
  /\ [](pc \in {"soak_read", "soak_ctrl", "soak_report"}
          => elapsed = now - phase2_start)

\* phase 2 runs after the target was reached later than the cycle started:
\* its elapsed time differs from the time since the start of the cycle
C19_Witness ==
  /\ pc = "soak_read"
  /\ ramp_exit = "reached"
  /\ phase2_start > phase1_start
  /\ elapsed = now - phase2_start
  /\ elapsed < now - phase1_start

\* C20: phase 2 is reported complete only with an elapsed time of at least
\* the duration, and a tick of phase 2 that reads or controls has an elapsed
\* time below the duration
C20_SoakEndsAtDuration ==
  /\ try_exit = "completed" => elapsed >= duration
  /\ pc \in {"soak_read", "soak_ctrl", "soak_report"} => elapsed < duration

\* phase 2 of a cycle that reached its target has ended exactly at the
\* duration, after a tick that read and controlled
C20_Witness ==
  /\ pc = "stop_enter"
  /\ try_exit = "completed"
  /\ ramp_exit = "reached"
  /\ elapsed = duration
  /\ Len(readings) >= 2

\* run_cycle has been left after its try block ended (completion, fault or
\* cancel signal): back in the menu, or out of the program
CycleOver ==
  /\ try_exit \in {"completed", "sensor", "overtemp", "cancel"}
  /\ pc \in {"menu", "exited"}

\* C21: for every cycle that is over, however it ended, the final report
\* (maximum and final temperature) has been emitted exactly once
C21_ReportExactlyOnce ==
  CycleOver => reports = 1

\* C22: a step in which update_display, log_data or the final display update
\* fails goes where it goes without the failure and leaves the heater command
\* and the relay line alone; and a cycle that has returned to the menu has
\* its heater off
C22_ReportFailuresSwallowed ==
  /\ [][(~report_failed /\ report_failed')
          => /\ heating_active' = heating_active
             /\ relay' = relay
             /\ pc = "ramp_report" => pc' = "ramp_check"
             /\ pc = "soak_report" => pc' = "soak_top"
             /\ pc = "stop_display" => pc' = (IF reraise THEN "exited"
                                                         ELSE "menu")]_vars
  /\ [](pc = "menu" => (~heating_active /\ ~HeaterEnergised))

\* the display has failed in a tick of phase 2 while the heater was on, and
\* the cycle carries on with the next tick
C22_Witness ==
  /\ pc = "soak_top"
  /\ report_failed
  /\ ramp_exit = "reached"
  /\ heating_active /\ HeaterEnergised

\* C23: a controller is built with the given target when it lies in
\* [TEMP_MIN, TEMP_MAX] and with DEFAULT_TARGET_TEMP otherwise, with the given
\* duration when it lies in [DURACAO_MIN, DURACAO_MAX] and with
\* DEFAULT_DURATION otherwise; so the settings of a cycle are within bounds
C23_SettingsValidated ==
  pc \in {"constructed", "init"} =>
    /\ target_temp = (IF TEMP_MIN <= given_temp /\ given_temp <= TEMP_MAX
                      THEN given_temp ELSE DEFAULT_TARGET_TEMP)
    /\ duration = (IF DURACAO_MIN <= given_duration
                      /\ given_duration <= DURACAO_MAX
                   THEN given_duration ELSE DEFAULT_DURATION)
    /\ TEMP_MIN <= target_temp /\ target_temp <= TEMP_MAX
    /\ DURACAO_MIN <= duration /\ duration <= DURACAO_MAX

\* a cycle has started with a target above the range, replaced by the
\* default, and the largest duration, kept
C23_Witness ==
  /\ pc = "init"
  /\ cycle_active
  /\ given_temp = TEMP_MAX + 1
  /\ target_temp = DEFAULT_TARGET_TEMP
  /\ given_duration = DURACAO_MAX
  /\ duration = DURACAO_MAX

\* a tick of either phase reaches its report: update_display, then log_data
\* when the log is due
TickReports ==
  \/ pc = "ramp_report" /\ pc' = "ramp_check"
  \/ pc = "soak_report" /\ pc' = "soak_top"

\* C24: within a cycle, a display refresh comes at least
\* DISPLAY_UPDATE_INTERVAL seconds after the refresh before it, and a log
\* record at least LOG_INTERVAL seconds after the record before it
C24_MinimumIntervals ==
  [][TickReports =>
       /\ (display_ok /\ refresh_at # None)
            => now - refresh_at >= DISPLAY_UPDATE_INTERVAL
       /\ (elapsed - last_log >= LOG_INTERVAL /\ log_at # None)
            => now - log_at >= LOG_INTERVAL]_vars

\* the value of 16 bits read most significant first
ValueMSB(bits) == SeqSum([i \in 1..16 |-> bits[i] * 2 ^ (16 - i)])

\* C25: an acquisition samples 16 bits; with w their most-significant-first
\* value, the reading fails when bit 2 of w is set and is (w >> 3) quarters
\* of a degree otherwise, in both controllers
C25_WordDecoding ==
  (pc = "decoded" /\ sampled # <<>>) =>
    LET w == ValueMSB(sampled)
        quarters == w \div 8
    IN /\ Len(sampled) = 16
       /\ IF (w \div 4) % 2 = 1
          THEN /\ temp = None
               /\ readings = <<>>
               /\ tc_errors_in_row = 1
               /\ tc_readings = <<>>
          ELSE /\ temp * 4 = quarters * UnitsPerDegree
               /\ readings = <<temp>>
               /\ tc_result = temp
               /\ tc_readings = <<temp>>

\* the word 0x8C83 has been decoded: sign bit set, low bits 011, no fault,
\* 4496 quarters of a degree
C25_Witness ==
  /\ pc = "decoded"
  /\ sampled = <<1, 0, 0, 0, 1, 1, 0, 0, 1, 0, 0, 0, 0, 0, 1, 1>>
  /\ temp = 1124 * UnitsPerDegree
  /\ tc_result = temp

\* a step of the try block from the end of phase 1 up to the control step
\* of a tick of phase 2
BoundaryStep ==
  /\ pc \in {"ramp_check", "soak_begin", "soak_top", "soak_read"}
  /\ pc' \in {"soak_begin", "soak_top", "soak_read", "soak_ctrl"}

\* C26: no step from the end of phase 1 up to a control step of phase 2
\* changes the heater command or the relay output, and a control step of
\* phase 2 on a reading inside the dead band leaves them as they were
C26_CommandPersistsIntoSoak ==
  [][/\ BoundaryStep
        => (heating_active' = heating_active /\ relay' = relay)
     /\ (pc = "soak_ctrl" /\ InBand(current_temp, target_temp))
        => (heating_active' = heating_active /\ relay' = relay)]_vars

\* after the first control step of phase 2, on a reading inside the dead
\* band, the heater is still ON as phase 1 left it
C26_Witness ==
  /\ pc = "soak_report"
  /\ elapsed = 0
  /\ InBand(current_temp, target_temp)
  /\ heating_active
  /\ HeaterEnergised

\* the recorded maximum only ever drops at the start of a cycle
CycleStartStep == tc_max_temp_reached' < tc_max_temp_reached

\* C27: the start of a cycle on a TemperatureController that has been used
\* before leaves the recorded maximum at 0 and the error counter at 0
C27_CycleStartResets ==
  [][CycleStartStep => (tc_max_temp_reached' = 0 /\ tc_error_count' = 0)]_vars

\* phase 1 has lasted no longer than its timeout plus one tick
RampBounded ==
  pc \in RampPcs => now - phase1_start <= FASE1_TIMEOUT + ClockStep

\* phase 2, once its first tick has read the clock and up to its completion,
\* has lasted no longer than the duration plus one tick
SoakBounded ==
  (\/ pc \in {"soak_read", "soak_ctrl", "soak_report"}
   \/ pc = "stop_enter" /\ try_exit = "completed")
    => now - phase2_start <= duration + ClockStep

\* C28: phase 1 lasts at most FASE1_TIMEOUT plus one tick, phase 2 at most
\* the duration plus one tick, and every cycle that has started executes
\* stop_cycle, unless an operator interrupt outside the try block ends the
\* program first
C28_CycleTerminates ==
  /\ []RampBounded
  /\ []SoakBounded
  /\ (pc = "init") ~> (pc = "stop_report" \/ pc = "exited")

\* a cycle that never reached its target has left phase 1 by the timeout,
\* completed phase 2 and executed stop_cycle
C28_Witness ==
  /\ pc = "stop_report"
  /\ ramp_exit = "timeout"
  /\ try_exit = "completed"
  /\ cancels = 0
  /\ now - phase1_start > FASE1_TIMEOUT
  /\ now - phase2_start >= duration

\* positions outside run_cycle: a controller just built, the menu's
\* temperature test, the menu between two cycles, the program ended
OutsideCycle == pc \in {"constructed", "test", "menu", "exited"}

\* C29: heating_active holds only while cycle_active holds and the
\* indicator is on, and outside run_cycle the heater command is off and the
\* heater element carries no current
C29_HeaterOnlyInsideCycle ==
  /\ heating_active => (cycle_active /\ led)
  /\ OutsideCycle => (~heating_active /\ ~HeaterEnergised)

====
